---- MODULE Spec2Model ----
(***************************************************************************)
(* Model of immutable-set (src/src/set.js): safeSet, the recursive setter  *)
(* set, the batch reducers reduceWithArray / reduceWithObject, nextBase,   *)
(* recursiveEqual and the string-path parser.                              *)
(*                                                                         *)
(* JavaScript values are tagged records [t, v]; objects and arrays live in *)
(* a heap (a sequence of cells, the address of a cell is its index), so    *)
(* that reference identity, fresh allocation and in-place writes (the      *)
(* accumulator of reduceWithArray) are all visible to the checks.          *)
(***************************************************************************)
EXTENDS Integers, Sequences, FiniteSets, TLC

VARIABLES heap, roots, calls, base, path, value, options, result, threw,
          mark, created, nonIndex, sparse, strIn, parsed

vars == <<heap, roots, calls, base, path, value, options, result, threw,
          mark, created, nonIndex, sparse, strIn, parsed>>

callVars == <<heap, roots, calls, base, path, value, options, result, threw,
              mark, created, nonIndex, sparse>>

(***************************************************************************)
(* Bounds of the model.                                                    *)
(***************************************************************************)
\* numeric keys of the paths are 0..MaxIndex
MaxIndex == 1
\* array paths have 1..MaxPathLen segments
MaxPathLen == 2
\* number of successive update calls in SpecSeq
MaxCalls == 2
\* number of lexical pieces of a string path in SpecParse
MaxPieces == 6

(***************************************************************************)
(* JavaScript values.                                                      *)
(***************************************************************************)
Undefined == [t |-> "undefined", v |-> 0]
Null == [t |-> "null", v |-> 0]
Num(n) == [t |-> "number", v |-> n]
Str(s) == [t |-> "string", v |-> s]
\* a reference to the heap cell a (typeof === 'object')
Ref(a) == [t |-> "object", v |-> a]
\* a string that is read character by character (a string path): the
\* sequence of its one-character strings (typeof === 'string')
Chars(cs) == [t |-> "chars", v |-> cs]
\* an array literal that has no identity of its own in the model: a path, or
\* a group of keys inside a path
Arr(s) == [t |-> "array", v |-> s]

\* ToBoolean
Truthy(x) ==
    CASE x.t = "undefined" -> FALSE
      [] x.t = "null" -> FALSE
      [] x.t = "number" -> x.v # 0
      [] x.t = "string" -> x.v # ""
      [] x.t = "chars" -> x.v # <<>>
      [] OTHER -> TRUE

\* the test of lines 10 and 113: !base || typeof base !== 'object'
NotObject(x) == ~Truthy(x) \/ x.t # "object"

(***************************************************************************)
(* Heap cells: a plain object keeps its own properties in props (property  *)
(* name -> value), an array keeps its elements in elems.                   *)
(***************************************************************************)
EmptyObject == [isArray |-> FALSE, props |-> <<>>, elems |-> <<>>]
EmptyArray == [isArray |-> TRUE, props |-> <<>>, elems |-> <<>>]
ObjectOf(p) == [isArray |-> FALSE, props |-> p, elems |-> <<>>]
ArrayOf(e) == [isArray |-> TRUE, props |-> <<>>, elems |-> e]

\* Array.isArray
IsArray(h, x) == x.t = "object" /\ h[x.v].isArray

RECURSIVE JoinNames(_)
\* Array.prototype.join(',') of an array of keys
JoinNames(keys) ==
    LET name(k) == IF k.t = "number" THEN ToString(k.v) ELSE k.v
    IN IF keys = <<>> THEN ""
       ELSE IF Len(keys) = 1 THEN name(keys[1])
       ELSE name(keys[1]) \o "," \o JoinNames(Tail(keys))

\* ToPropertyKey: a number key names the property of its decimal string, an
\* array used as a key the property of its joined elements
PropName(key) ==
    CASE key.t = "number" -> ToString(key.v)
      [] key.t = "array" -> JoinNames(key.v)
      [] OTHER -> key.v

\* ToIntegerOrInfinity of a string. The strings the model converts are its
\* string keys ("", letters and "1") and those keys followed by "1": "" is
\* 0, a digit string its value, and any other string NaN, which slice takes
\* as 0.
StringToInteger(s) ==
    CASE s = "1" -> 1
      [] s = "11" -> 11
      [] OTHER -> 0

\* ToIntegerOrInfinity(key), NaN becoming 0, as Array.prototype.slice does
ToInteger(key) == IF key.t = "number" THEN key.v ELSE StringToInteger(key.v)

\* ToIntegerOrInfinity(key + 1): a string key concatenates
ToIntegerPlusOne(key) ==
    IF key.t = "number" THEN key.v + 1 ELSE StringToInteger(key.v \o "1")

\* key < length: a string key is converted to a number, and the comparison
\* is false when that is NaN
LessThanLength(key, len) ==
    IF key.t = "number" THEN key.v < len
    ELSE key.v \in {"", "1"} /\ StringToInteger(key.v) < len

\* base[key] for a base that is not null or undefined: an element of an
\* array when the property name is the decimal string of an index, an own
\* property otherwise
Get(h, b, key) ==
    IF b.t # "object" THEN Undefined
    ELSE LET cell == h[b.v]
             name == PropName(key)
             index == {i \in 0..(Len(cell.elems) - 1) : ToString(i) = name}
         IN IF cell.isArray /\ index # {}
            THEN cell.elems[(CHOOSE i \in index : TRUE) + 1]
            ELSE IF name \in DOMAIN cell.props
            THEN cell.props[name]
            ELSE Undefined

PutProp(p, name, x) ==
    [n \in (DOMAIN p) \cup {name} |-> IF n = name THEN x ELSE p[n]]

\* { ...p, ...q }
Spread(p, q) ==
    [n \in (DOMAIN p) \cup (DOMAIN q) |-> IF n \in DOMAIN q THEN q[n] ELSE p[n]]

Min(a, b) == IF a < b THEN a ELSE b

\* Array.prototype.slice(from, to) on the element sequence e
Slice(e, from, to) == SubSeq(e, Min(from, Len(e)) + 1, Min(to, Len(e)))

(***************************************************************************)
(* The string-path parser (safeSet, lines 155-168). A string is a sequence *)
(* of one-character strings.                                               *)
(***************************************************************************)
Digits == {"0", "1", "2", "3", "4", "5", "6", "7", "8", "9"}

DigitValue(c) ==
    CASE c = "0" -> 0 [] c = "1" -> 1 [] c = "2" -> 2 [] c = "3" -> 3
      [] c = "4" -> 4 [] c = "5" -> 5 [] c = "6" -> 6 [] c = "7" -> 7
      [] c = "8" -> 8 [] OTHER -> 9

RECURSIVE Join(_)
\* the string made of the characters cs
Join(cs) == IF cs = <<>> THEN "" ELSE Head(cs) \o Join(Tail(cs))

RECURSIVE ToNumber(_)
\* Number(ds) for a string of decimal digits; Number('') is 0
ToNumber(ds) ==
    IF ds = <<>> THEN 0
    ELSE 10 * ToNumber(SubSeq(ds, 1, Len(ds) - 1)) + DigitValue(ds[Len(ds)])

RECURSIVE split(_)
\* path.split('.')
split(cs) ==
    IF \E i \in 1..Len(cs) : cs[i] = "."
    THEN LET i == CHOOSE i \in 1..Len(cs) :
                      cs[i] = "." /\ \A j \in 1..(i - 1) : cs[j] # "."
         IN <<SubSeq(cs, 1, i - 1)>> \o split(SubSeq(cs, i + 1, Len(cs)))
    ELSE <<cs>>

\* cs has a match of \[([0-9]*)\] that opens at i and closes at j
MatchAt(cs, i, j) ==
    /\ cs[i] = "["
    /\ cs[j] = "]"
    /\ \A k \in (i + 1)..(j - 1) : cs[k] \in Digits

HasMatch(cs) == \E i, j \in 1..Len(cs) : i < j /\ MatchAt(cs, i, j)

\* /\[([0-9]*)\]/.exec(key): the leftmost match, [index |-> .., digits |-> ..]
exec(cs) ==
    LET i == CHOOSE i \in 1..Len(cs) :
                 /\ \E j \in (i + 1)..Len(cs) : MatchAt(cs, i, j)
                 /\ \A i2 \in 1..(i - 1) :
                        ~\E j \in (i2 + 1)..Len(cs) : MatchAt(cs, i2, j)
        j == CHOOSE j \in (i + 1)..Len(cs) : MatchAt(cs, i, j)
    IN [index |-> i - 1, digits |-> SubSeq(cs, i + 1, j - 1)]

\* the reducer of lines 157-167 for one token
parseKey(acc, key) ==
    IF HasMatch(key)
    THEN LET groupe == exec(key)
         IN acc \o <<Str(Join(SubSeq(key, 1, groupe.index))),
                     Num(ToNumber(groupe.digits))>>
    ELSE Append(acc, Str(Join(key)))

RECURSIVE parseKeys(_, _)
parseKeys(acc, tokens) ==
    IF tokens = <<>> THEN acc
    ELSE parseKeys(parseKey(acc, Head(tokens)), Tail(tokens))

\* lines 155-168: a non-empty string becomes an array of segments; any other
\* path is left as it is
parsePath(p) ==
    IF p.t = "chars" /\ Len(p.v) > 0
    THEN Arr(parseKeys(<<>>, split(p.v)))
    ELSE p

(***************************************************************************)
(* Evaluation. A function of the program that allocates, writes or throws  *)
(* takes the machine m it starts from and returns the machine it leaves:   *)
(*   heap     the cells allocated so far                                   *)
(*   created  the empty containers made on demand, in order: the cell, who *)
(*            made it, the segment about to be written into it, the mode   *)
(*   nonIndex some write to an array used a key that is not a number       *)
(*   sparse   some write to an array used an index beyond its length       *)
(*   threw    "none", "Error" (line 49) or "TypeError" (a property read on *)
(*            null or undefined)                                           *)
(*   ret      the value returned                                           *)
(***************************************************************************)
Machine(h) ==
    [heap |-> h, created |-> <<>>, nonIndex |-> FALSE, sparse |-> FALSE,
     threw |-> "none", ret |-> Undefined]

Return(m, x) == [m EXCEPT !.ret = x]

Throw(m, e) == [m EXCEPT !.threw = e, !.ret = Undefined]

\* a new cell; ret is the reference to it
Alloc(m, cell) ==
    [m EXCEPT !.heap = Append(@, cell), !.ret = Ref(Len(m.heap) + 1)]

\* [] or {} made on demand
Create(m, isArr, by, seg, withArrays) ==
    LET m1 == Alloc(m, IF isArr THEN EmptyArray ELSE EmptyObject)
    IN [m1 EXCEPT !.created =
            Append(@, [addr |-> m1.ret.v, by |-> by, seg |-> seg,
                       withArrays |-> withArrays])]

\* values[key], which throws on null and undefined
GetValue(m, values, key) ==
    IF values.t \in {"undefined", "null"}
    THEN Throw(m, "TypeError")
    ELSE Return(m, Get(m.heap, values, key))

\* [key, nextKey] = path: the second element, undefined past the end
NextKey(p) == IF Len(p) > 1 THEN p[2] ELSE Undefined

\* nextBase that looks at the next key only, whatever the mode
nextBaseAnyMode(m, b, key, nextKey, withArrays) ==
    IF Truthy(Get(m.heap, b, key))
    THEN Return(m, Get(m.heap, b, key))
    ELSE Create(m, nextKey.t = "number", "nextBase", nextKey, withArrays)

nextBase(m, b, key, nextKey, withArrays) ==
    IF Truthy(Get(m.heap, b, key))
    THEN Return(m, Get(m.heap, b, key))
    ELSE Create(m, withArrays /\ nextKey.t = "number", "nextBase", nextKey,
                withArrays)

RECURSIVE set(_, _, _, _, _)
RECURSIVE reduceArrayKeys(_, _, _, _, _, _, _, _, _)
RECURSIVE reduceObjectKeys(_, _, _, _, _, _, _, _, _)

\* lines 52-62, from the i-th key on: acc is the accumulator's reference
reduceArrayKeys(m, b, p, keys, nextKey, values, withArrays, acc, i) ==
    IF i > Len(keys) THEN Return(m, acc)
    ELSE
    LET key == keys[i]
        m1 == nextBase(m, b, key, nextKey, withArrays)
        m2 == set(m1, m1.ret, Tail(p), Get(m1.heap, values, Num(i - 1)),
                  withArrays)
        len == Len(m2.heap[acc.v].elems)
        \* acc[key] = newValue writes an element when key names an index (a
        \* number, or the digit string "1") and a named property otherwise
        m3 == IF LessThanLength(key, len)
              THEN IF key.t = "number" \/ key.v = "1"
                   THEN [m2 EXCEPT !.heap[acc.v].elems[ToInteger(key) + 1] = m2.ret,
                                   !.nonIndex = @ \/ key.t # "number"]
                   ELSE [m2 EXCEPT !.heap[acc.v].props =
                                       PutProp(@, PropName(key), m2.ret),
                                   !.nonIndex = TRUE]
              ELSE [m2 EXCEPT !.heap[acc.v].elems = Append(@, m2.ret),
                              !.nonIndex = @ \/ key.t # "number",
                              !.sparse = @ \/ (key.t = "number" /\ key.v > len)]
    IN IF m2.threw # "none" THEN m2
       ELSE reduceArrayKeys(m3, b, p, keys, nextKey, values, withArrays, acc,
                            i + 1)

\* reduceWithArray without the test of line 48
reduceWithArrayUnchecked(m, b, p, keys, nextKey, values, withArrays, accumulator) ==
    reduceArrayKeys(m, b, p, keys, nextKey, values, withArrays, accumulator, 1)

\* lines 47-63: accumulator is the reference to the copy of the current level
reduceWithArray(m, b, p, keys, nextKey, values, withArrays, accumulator) ==
    IF ~IsArray(m.heap, values)
    THEN Throw(m, "Error")
    ELSE reduceArrayKeys(m, b, p, keys, nextKey, values, withArrays,
                         accumulator, 1)

RECURSIVE reduceObjectKeysShared(_, _, _, _, _, _, _, _, _)
\* reduceObjectKeys giving a value that is no array to every key as it is
reduceObjectKeysShared(m, b, p, keys, nextKey, values, withArrays, acc, i) ==
    IF i > Len(keys) THEN Return(m, acc)
    ELSE
    LET key == keys[i]
        m1 == nextBase(m, b, key, nextKey, withArrays)
        m2 == IF IsArray(m1.heap, values)
              THEN Return(m1, Get(m1.heap, values, Num(i - 1)))
              ELSE Return(m1, values)
        m3 == set(m2, m1.ret, Tail(p), m2.ret, withArrays)
        m4 == [m3 EXCEPT !.heap[acc.v].props = PutProp(@, PropName(key), m3.ret)]
    IN IF m3.threw # "none" THEN m3
       ELSE reduceObjectKeysShared(m4, b, p, keys, nextKey, values, withArrays,
                                   acc, i + 1)

\* lines 82-86 and 89-93, from the i-th key on: acc is the reference to the
\* new object that collects the results
reduceObjectKeys(m, b, p, keys, nextKey, values, withArrays, acc, i) ==
    IF i > Len(keys) THEN Return(m, acc)
    ELSE
    LET key == keys[i]
        m1 == nextBase(m, b, key, nextKey, withArrays)
        m2 == IF IsArray(m1.heap, values)
              THEN Return(m1, Get(m1.heap, values, Num(i - 1)))
              ELSE GetValue(m1, values, key)
        m3 == set(m2, m1.ret, Tail(p), m2.ret, withArrays)
        m4 == [m3 EXCEPT !.heap[acc.v].props = PutProp(@, PropName(key), m3.ret)]
    IN IF m2.threw # "none" THEN m2
       ELSE IF m3.threw # "none" THEN m3
       ELSE reduceObjectKeys(m4, b, p, keys, nextKey, values, withArrays, acc,
                             i + 1)

\* lines 80-94
reduceWithObject(m, b, p, keys, nextKey, values, withArrays) ==
    LET m1 == Alloc(m, EmptyObject)
    IN reduceObjectKeys(m1, b, p, keys, nextKey, values, withArrays, m1.ret, 1)

\* lines 113-115: a level that is no object is replaced by a new container
currentBaseOf(m, b, key, withArrays) ==
    IF NotObject(b)
    THEN Create(m, \/ (key.t = "array" /\ Len(key.v) > 0 /\ key.v[1].t = "number")
                   \/ (withArrays /\ key.t = "number"),
                "set", key, withArrays)
    ELSE Return(m, b)

\* setGroup with the accumulator aliased to the current level, not a copy
setGroupAliased(m, currentBase, p, value_, withArrays) ==
    LET key == p[1]
        nextKey == NextKey(p)
    IN IF IsArray(m.heap, currentBase)
       THEN reduceWithArray(m, currentBase, p, key.v, nextKey, value_,
                            withArrays, currentBase)
       ELSE LET m1 == reduceWithObject(m, currentBase, p, key.v, nextKey,
                                       value_, withArrays)
            IN IF m1.threw # "none" THEN m1
               ELSE Alloc(m1, ObjectOf(Spread(m1.heap[currentBase.v].props,
                                              m1.heap[m1.ret.v].props)))

\* lines 117-125: the current segment is a group
setGroup(m, currentBase, p, value_, withArrays) ==
    LET key == p[1]
        nextKey == NextKey(p)
    IN IF IsArray(m.heap, currentBase)
       THEN LET m1 == Alloc(m, ArrayOf(m.heap[currentBase.v].elems))
            IN reduceWithArray(m1, currentBase, p, key.v, nextKey, value_,
                               withArrays, m1.ret)
       ELSE LET m1 == reduceWithObject(m, currentBase, p, key.v, nextKey,
                                       value_, withArrays)
            IN IF m1.threw # "none" THEN m1
               ELSE Alloc(m1, ObjectOf(Spread(m1.heap[currentBase.v].props,
                                              m1.heap[m1.ret.v].props)))

\* setKey writing into the current level instead of building a new one
setKeyInPlace(m, currentBase, p, value_, withArrays) ==
    LET key == p[1]
        m1 == nextBase(m, currentBase, key, NextKey(p), withArrays)
        m2 == set(m1, m1.ret, Tail(p), value_, withArrays)
        cell == m2.heap[currentBase.v]
        len == Len(cell.elems)
    IN IF m2.threw # "none" THEN m2
       ELSE IF cell.isArray
       THEN [m2 EXCEPT !.heap[currentBase.v] =
                           ArrayOf(Slice(cell.elems, 0, ToInteger(key))
                                   \o <<m2.ret>>
                                   \o Slice(cell.elems, ToIntegerPlusOne(key), len)),
                       !.ret = currentBase,
                       !.nonIndex = @ \/ key.t # "number",
                       !.sparse = @ \/ (key.t = "number" /\ key.v > len)]
       ELSE [m2 EXCEPT !.heap[currentBase.v] =
                           ObjectOf(PutProp(cell.props, PropName(key), m2.ret)),
                       !.ret = currentBase]

\* setKey that replaces an element of an array but never appends one
setKeyReplaceOnly(m, currentBase, p, value_, withArrays) ==
    LET key == p[1]
        m1 == nextBase(m, currentBase, key, NextKey(p), withArrays)
        m2 == set(m1, m1.ret, Tail(p), value_, withArrays)
        cell == m2.heap[currentBase.v]
        len == Len(cell.elems)
    IN IF m2.threw # "none" THEN m2
       ELSE IF cell.isArray
       THEN [Alloc(m2, ArrayOf([i \in 1..len |->
                                   IF i = ToInteger(key) + 1 THEN m2.ret
                                   ELSE cell.elems[i]]))
             EXCEPT !.nonIndex = @ \/ key.t # "number",
                    !.sparse = @ \/ (key.t = "number" /\ key.v > len)]
       ELSE Alloc(m2, ObjectOf(PutProp(cell.props, PropName(key), m2.ret)))

\* lines 128-139: the current segment is a single key
setKey(m, currentBase, p, value_, withArrays) ==
    LET key == p[1]
        m1 == nextBase(m, currentBase, key, NextKey(p), withArrays)
        m2 == set(m1, m1.ret, Tail(p), value_, withArrays)
        cell == m2.heap[currentBase.v]
        len == Len(cell.elems)
    IN IF m2.threw # "none" THEN m2
       ELSE IF cell.isArray
       THEN [Alloc(m2, ArrayOf(Slice(cell.elems, 0, ToInteger(key))
                               \o <<m2.ret>>
                               \o Slice(cell.elems, ToIntegerPlusOne(key), len)))
             EXCEPT !.nonIndex = @ \/ key.t # "number",
                    !.sparse = @ \/ (key.t = "number" /\ key.v > len)]
       ELSE Alloc(m2, ObjectOf(PutProp(cell.props, PropName(key), m2.ret)))

\* lines 104-140
set(m, b, p, value_, withArrays) ==
    IF Len(p) = 0 THEN Return(m, value_)
    ELSE LET m1 == currentBaseOf(m, b, p[1], withArrays)
         IN IF p[1].t = "array"
            THEN setGroup(m1, m1.ret, p, value_, withArrays)
            ELSE setKey(m1, m1.ret, p, value_, withArrays)

(***************************************************************************)
(* The equality pre-check and the entry point.                             *)
(***************************************************************************)
\* a === b
StrictEquals(a, b) == a = b

\* typeof
TypeOf(x) == IF x.t = "null" THEN "object" ELSE x.t

\* options.equality: "none" when the caller supplies no function, "typeof"
\* for the caller's function (a, b) => typeof a === typeof b
Equality(equality, a, b) ==
    IF equality = "none" THEN StrictEquals(a, b) ELSE TypeOf(a) = TypeOf(b)

\* recursiveEqual that compares at the first key and never descends
recursiveEqualShallow(h, b, p, value_, equality) ==
    IF NotObject(b) THEN FALSE
    ELSE Equality(equality, Get(h, b, p[1]), value_)

RECURSIVE recursiveEqual(_, _, _, _, _)
\* lines 9-20
recursiveEqual(h, b, p, value_, equality) ==
    IF NotObject(b) THEN FALSE
    ELSE IF NextKey(p) = Undefined
    THEN Equality(equality, Get(h, b, p[1]), value_)
    ELSE recursiveEqual(h, Get(h, b, p[1]), Tail(p), value_, equality)

\* safeSet whose pre-check compares the types of the values only
safeSetTypeCheck(m, b, initialPath, value_, opts) ==
    LET p == parsePath(initialPath)
    IN IF p.t # "array" \/ Len(p.v) < 1
       THEN Return(m, IF StrictEquals(b, value_) THEN b ELSE value_)
       ELSE IF opts.safe /\ recursiveEqual(m.heap, b, p.v, value_, "typeof")
       THEN Return(m, b)
       ELSE set(m, b, p.v, value_, opts.withArrays)

\* lines 150-180
safeSet(m, b, initialPath, value_, opts) ==
    LET p == parsePath(initialPath)
    IN IF p.t # "array" \/ Len(p.v) < 1
       THEN Return(m, IF StrictEquals(b, value_) THEN b ELSE value_)
       ELSE IF opts.safe /\ recursiveEqual(m.heap, b, p.v, value_, opts.equality)
       THEN Return(m, b)
       ELSE set(m, b, p.v, value_, opts.withArrays)

(***************************************************************************)
(* Inputs.                                                                 *)
(***************************************************************************)
\* The structures the calls start from:
\*   1: {}   2: []   3: {a: null, b: 7}   4: [10, 20]   5: {a: 1, b: 2}
\*   6: {a: <5>, b: <4>}   7: [<3>, 1, 0]
InitHeap ==
    << EmptyObject,
       EmptyArray,
       ObjectOf([a |-> Null, b |-> Num(7)]),
       ArrayOf(<<Num(10), Num(20)>>),
       ObjectOf([a |-> Num(1), b |-> Num(2)]),
       ObjectOf([a |-> Ref(5), b |-> Ref(4)]),
       ArrayOf(<<Ref(3), Num(1), Num(0)>>) >>

InitRoots == {Undefined, Num(7), Ref(1), Ref(2), Ref(4), Ref(6), Ref(7)}

\* names, the digit string "1" and indices
Keys == {Str("a"), Str("b"), Str("1")} \cup {Num(i) : i \in 0..MaxIndex}

Groups ==
    { Arr(<<Num(0), Num(1)>>), Arr(<<Str("a"), Str("b")>>),
      Arr(<<Num(MaxIndex)>>) }

Segments == Keys \cup Groups

SegmentPaths(S) == UNION {[1..n -> S] : n \in 1..MaxPathLen}

\* "a.b", "b[0]" and "[1]"
StringPaths ==
    { Chars(<<"a", ".", "b">>), Chars(<<"b", "[", "0", "]">>),
      Chars(<<"[", "1", "]">>) }

\* not path-shaped, or empty
NoPaths == {Undefined, Chars(<<>>), Arr(<<>>)}

Paths == {Arr(p) : p \in SegmentPaths(Segments)} \cup StringPaths \cup NoPaths

\* a scalar, an object that is already part of a base, a positional collection
\* and a keyed collection
Values == {Undefined, Num(1), Ref(3), Ref(4), Ref(5)}

Options == [withArrays : BOOLEAN, safe : BOOLEAN, equality : {"none", "typeof"}]

DefaultOptions == [withArrays |-> FALSE, safe |-> FALSE, equality |-> "none"]

(***************************************************************************)
(* The state machine.                                                      *)
(***************************************************************************)
Init ==
    /\ heap = InitHeap
    /\ roots = InitRoots
    /\ calls = 0
    /\ base = Undefined
    /\ path = Undefined
    /\ value = Undefined
    /\ options = DefaultOptions
    /\ result = Undefined
    /\ threw = "none"
    /\ mark = Len(InitHeap)
    /\ created = <<>>
    /\ nonIndex = FALSE
    /\ sparse = FALSE
    /\ strIn = <<>>
    /\ parsed = Undefined

\* one call safeSet(b, p, v, o); its result becomes a structure later calls
\* may start from
Update(b, p, v, o) ==
    \E m \in {safeSet(Machine(heap), b, p, v, o)} :
       /\ heap' = m.heap
       /\ roots' = IF m.threw = "none" THEN roots \cup {m.ret} ELSE roots
       /\ calls' = calls + 1
       /\ base' = b
       /\ path' = p
       /\ value' = v
       /\ options' = o
       /\ result' = m.ret
       /\ threw' = m.threw
       /\ mark' = Len(heap)
       /\ created' = m.created
       /\ nonIndex' = m.nonIndex
       /\ sparse' = m.sparse
       /\ UNCHANGED <<strIn, parsed>>

\* a single call on any input
Call ==
    /\ calls = 0
    /\ \E b \in roots, p \in Paths, v \in Values, o \in Options :
           Update(b, p, v, o)

Next == Call

Spec == Init /\ [][Next]_vars

(***************************************************************************)
(* Successive calls: every call starts from one of the initial structures  *)
(* or from the result of an earlier call.                                  *)
(***************************************************************************)
SeqRoots == {Ref(2), Ref(6)}

\* [[0,1]], ["b",[0,1]], [0,"a"], ["a","b"] and "b[0]"
SeqPaths ==
    { Arr(<<Arr(<<Num(0), Num(1)>>)>>),
      Arr(<<Str("b"), Arr(<<Num(0), Num(1)>>)>>),
      Arr(<<Num(0), Str("a")>>),
      Arr(<<Str("a"), Str("b")>>),
      Chars(<<"b", "[", "0", "]">>) }

SeqValues == {Num(1), Ref(4)}

SeqOptions ==
    {DefaultOptions, [withArrays |-> TRUE, safe |-> TRUE, equality |-> "none"]}

InitSeq ==
    /\ heap = InitHeap
    /\ roots = SeqRoots
    /\ calls = 0
    /\ base = Undefined
    /\ path = Undefined
    /\ value = Undefined
    /\ options = DefaultOptions
    /\ result = Undefined
    /\ threw = "none"
    /\ mark = Len(InitHeap)
    /\ created = <<>>
    /\ nonIndex = FALSE
    /\ sparse = FALSE
    /\ strIn = <<>>
    /\ parsed = Undefined

CallAgain ==
    /\ calls < MaxCalls
    /\ \E b \in roots, p \in SeqPaths, v \in SeqValues, o \in SeqOptions :
           Update(b, p, v, o)

NextSeq == CallAgain

SpecSeq == InitSeq /\ [][NextSeq]_vars

(***************************************************************************)
(* The parser alone, on the strings made of at most MaxPieces pieces.      *)
(***************************************************************************)
Pieces ==
    { <<"a">>, <<"b">>, <<".">>, <<"[", "0", "]">>, <<"[", "1", "]">> }

RECURSIVE Flatten(_)
Flatten(ps) == IF ps = <<>> THEN <<>> ELSE Head(ps) \o Flatten(Tail(ps))

StringInputs ==
    {Flatten(ps) : ps \in UNION {[1..n -> Pieces] : n \in 0..MaxPieces}}

InitParse ==
    /\ heap = InitHeap
    /\ roots = InitRoots
    /\ calls = 0
    /\ base = Undefined
    /\ path = Undefined
    /\ value = Undefined
    /\ options = DefaultOptions
    /\ result = Undefined
    /\ threw = "none"
    /\ mark = Len(InitHeap)
    /\ created = <<>>
    /\ nonIndex = FALSE
    /\ sparse = FALSE
    /\ strIn \in StringInputs
    /\ parsed = Undefined

\* the path normalisation of safeSet applied to the string strIn
Parse ==
    /\ parsed = Undefined
    /\ parsed' = parsePath(Chars(strIn))
    /\ UNCHANGED <<callVars, strIn>>

NextParse == Parse

SpecParse == InitParse /\ [][NextParse]_vars

(***************************************************************************)
(* Reading a structure, for the statements below.                          *)
(***************************************************************************)
RECURSIVE GetAtPath(_, _, _)
\* the value found by following the keys from x: undefined as soon as a
\* level is no object
GetAtPath(h, x, keys) ==
    IF keys = <<>> THEN x
    ELSE IF NotObject(x) THEN Undefined
    ELSE GetAtPath(h, Get(h, x, keys[1]), Tail(keys))

\* the own property names of the object or array x
OwnNames(h, x) ==
    {ToString(i - 1) : i \in 1..Len(h[x.v].elems)} \cup DOMAIN h[x.v].props

RECURSIVE DeepEqual(_, _, _)
\* same keys or length at every level, same leaf values
DeepEqual(h, x, y) ==
    IF x.t = "object" /\ y.t = "object"
    THEN /\ h[x.v].isArray = h[y.v].isArray
         /\ OwnNames(h, x) = OwnNames(h, y)
         /\ \A n \in OwnNames(h, x) :
                DeepEqual(h, Get(h, x, Str(n)), Get(h, y, Str(n)))
    ELSE x = y

\* the path of the last call, normalised
CallPath == parsePath(path)

\* the last call had a non-empty path
HasPath == calls > 0 /\ CallPath.t = "array" /\ Len(CallPath.v) >= 1

\* the last call went into the recursive setter (line 179)
ReachedSetter ==
    /\ HasPath
    /\ ~(options.safe
         /\ recursiveEqual(heap, base, CallPath.v, value, options.equality))

SingleKeys(p) == \A i \in 1..Len(p) : p[i].t \in {"number", "string"}

\* the keys a segment names
KeysOf(seg) ==
    IF seg.t = "array" THEN {seg.v[i] : i \in 1..Len(seg.v)} ELSE {seg}

\* the key sequences of length n that the path p names
Positions(p, n) ==
    {q \in [1..n -> UNION {KeysOf(p[i]) : i \in 1..n}] :
        \A i \in 1..n : q[i] \in KeysOf(p[i])}

\* the positions of the containers on the path: every proper prefix
PrefixPositions(p) == UNION {Positions(p, n) : n \in 0..(Len(p) - 1)}

\* every cell that exists before a step is the same after it
CellsUnchanged ==
    \A a \in 1..Len(heap) : a <= Len(heap') /\ heap'[a] = heap[a]

(***************************************************************************)
(* C1. No call changes a structure that exists when it starts: every cell  *)
(* of the heap, so every base at every depth, is after the call what it    *)
(* was before, over successive calls on earlier results, also when the     *)
(* call throws.                                                            *)
(***************************************************************************)
C1_Immutable == [][CellsUnchanged]_vars

\* a second call, on the array an earlier call produced, has fanned a group
\* out through the accumulator of reduceWithArray
C1_Witness ==
    /\ calls = 2
    /\ threw = "none"
    /\ base.t = "object" /\ base.v > Len(InitHeap) /\ heap[base.v].isArray
    /\ path = Arr(<<Arr(<<Num(0), Num(1)>>)>>)
    /\ result # base

(***************************************************************************)
(* C2. Structural sharing, as claimed for every update that reaches the    *)
(* setter: in every container on the path, whatever is stored under a key  *)
(* the path does not name is identical to what the base stores there, and  *)
(* every container on the path, the root included, is a new cell.          *)
(***************************************************************************)
Fresh ==
    \A q \in PrefixPositions(CallPath.v) :
        LET r == GetAtPath(heap, result, q)
        IN r.t = "object" /\ r.v > mark

Shared ==
    \A q \in PrefixPositions(CallPath.v) :
        LET r == GetAtPath(heap, result, q)
            b == GetAtPath(heap, base, q)
            named == {PropName(k) : k \in KeysOf(CallPath.v[Len(q) + 1])}
        IN r.t = "object" =>
               \A n \in OwnNames(heap, r) \ named :
                   Get(heap, r, Str(n)) = Get(heap, b, Str(n))

\* (a key applied to an ordered sequence is an index, a number)
C2_SharingAlways ==
    (ReachedSetter /\ threw = "none" /\ ~nonIndex) => (Shared /\ Fresh)

\* C2 as amended: the same, for the updates in which no write to an ordered
\* sequence uses an index beyond the length of that sequence.
C2_Sharing ==
    (ReachedSetter /\ threw = "none" /\ ~nonIndex /\ ~sparse)
        => (Shared /\ Fresh)

\* ["a","b"] was set in {a: {a: 1, b: 2}, b: [10, 20]}: the sibling b is the
\* base's own array
C2_Witness ==
    /\ ReachedSetter /\ threw = "none" /\ ~nonIndex /\ ~sparse
    /\ base = Ref(6)
    /\ path = Arr(<<Str("a"), Str("b")>>)
    /\ Get(heap, result, Str("b")) = Ref(4)
    /\ result.v > mark

(***************************************************************************)
(* C3. Safe mode returns the base itself when the base already holds the   *)
(* value at the path (single keys): every level on the way is an object or *)
(* an array, and what the last key finds equals the value, strictly or     *)
(* under the caller's equality.                                            *)
(***************************************************************************)
HoldsAt(h, b, p, x, equality) ==
    /\ \A i \in 0..(Len(p) - 1) : GetAtPath(h, b, SubSeq(p, 1, i)).t = "object"
    /\ Equality(equality, GetAtPath(h, b, p), x)

C3_SafeIdentity ==
    (/\ HasPath
     /\ options.safe
     /\ SingleKeys(CallPath.v)
     /\ HoldsAt(heap, base, CallPath.v, value, options.equality))
        => (threw = "none" /\ result = base)

\* the object under ["a"] of {a: <5>, b: <4>} was set again, two levels deep
C3_Witness ==
    /\ HasPath
    /\ options.safe
    /\ Len(CallPath.v) = 2
    /\ SingleKeys(CallPath.v)
    /\ base = Ref(6)
    /\ HoldsAt(heap, base, CallPath.v, value, options.equality)
    /\ result = base

(***************************************************************************)
(* C4. Round trip as claimed: after update(base, path, value) with single  *)
(* keys that meet only objects, arrays or absent levels in base, reading   *)
(* the result at the path yields the value, wherever an index falls with   *)
(* respect to the length of the array it is applied to.                    *)
(***************************************************************************)
NoLeafOnPath(h, b, p) ==
    \A i \in 0..(Len(p) - 1) :
        GetAtPath(h, b, SubSeq(p, 1, i)).t \in {"object", "undefined"}

C4_RoundTripAnyIndex ==
    (/\ HasPath
     /\ options = DefaultOptions
     /\ SingleKeys(CallPath.v)
     /\ NoLeafOnPath(heap, base, CallPath.v)
     /\ ~nonIndex)
        => (threw = "none" /\ GetAtPath(heap, result, CallPath.v) = value)

\* C4 as amended: round trip when every index applied to an ordered sequence,
\* one of the base or one the update creates, is at most its length; with or
\* without array-preferring mode and safe mode, under strict equality.
C4_RoundTrip ==
    (/\ HasPath
     /\ options.equality = "none"
     /\ SingleKeys(CallPath.v)
     /\ NoLeafOnPath(heap, base, CallPath.v)
     /\ ~nonIndex
     /\ ~sparse)
        => (threw = "none" /\ GetAtPath(heap, result, CallPath.v) = value)

\* update([], [0], 1) appended at the length of the array: [1]
C4_Witness ==
    /\ HasPath
    /\ options = DefaultOptions
    /\ base = Ref(2)
    /\ path = Arr(<<Num(0)>>)
    /\ value = Num(1)
    /\ result.t = "object"
    /\ heap[result.v] = ArrayOf(<<Num(1)>>)

(***************************************************************************)
(* The level at which the first group of the path is applied, when only    *)
(* single keys come before it.                                             *)
(***************************************************************************)
HasGroup(p) == \E i \in 1..Len(p) : p[i].t = "array"

FirstGroup(p) ==
    CHOOSE i \in 1..Len(p) :
        p[i].t = "array" /\ \A j \in 1..(i - 1) : p[j].t # "array"

\* what the base holds where the first group is applied
GroupLevel == GetAtPath(heap, base, SubSeq(CallPath.v, 1, FirstGroup(CallPath.v) - 1))

\* the level of the first group is an array of the base
LevelAlreadySequence == IsArray(heap, GroupLevel)

\* the level of the first group is no object, and the setter made an array
\* of it
LevelCoercedToSequence ==
    /\ NotObject(GroupLevel)
    /\ \E i \in 1..Len(created) :
           /\ created[i].by = "set"
           /\ created[i].seg = CallPath.v[FirstGroup(CallPath.v)]
           /\ heap[created[i].addr].isArray

GroupAtSequence ==
    /\ ReachedSetter
    /\ HasGroup(CallPath.v)
    /\ (LevelAlreadySequence \/ LevelCoercedToSequence)

(***************************************************************************)
(* C5. A call whose first group meets an array level, one of the base or   *)
(* one coerced from a level that is no object, with a value that is no     *)
(* array, throws the Error of line 49: no result, no new structure to      *)
(* start from, and every cell that existed before the call is unchanged.   *)
(***************************************************************************)
C5_ShapeMismatch ==
    [][(GroupAtSequence /\ ~IsArray(heap, value))'
          => (/\ threw' = "Error"
              /\ result' = Undefined
              /\ roots' = roots
              /\ CellsUnchanged)]_vars

\* the group of ["b", [..]] met the array under b of {a: <5>, b: [10, 20]}
\* with a value that is no array, and the call threw
C5_Witness ==
    /\ GroupAtSequence
    /\ FirstGroup(CallPath.v) = 2
    /\ LevelAlreadySequence
    /\ ~IsArray(heap, value)
    /\ base = Ref(6)
    /\ threw = "Error"

(***************************************************************************)
(* C6. As claimed: a single value (a number) given with a terminal group   *)
(* is stored under every key of the group.                                 *)
(***************************************************************************)
TerminalGroup(p) ==
    /\ p[Len(p)].t = "array"
    /\ SingleKeys(SubSeq(p, 1, Len(p) - 1))

\* the container of the result in which the terminal group was written
GroupParent == GetAtPath(heap, result, SubSeq(CallPath.v, 1, Len(CallPath.v) - 1))

IsIndexGroup(seg) ==
    /\ seg.t = "array"
    /\ \A i \in 1..Len(seg.v) : seg.v[i] = Num(i - 1)

C7_PositionalIntoAbsent ==
    (/\ HasPath
     /\ options = DefaultOptions
     /\ Len(CallPath.v) = 2
     /\ CallPath.v[1].t = "string"
     /\ IsIndexGroup(CallPath.v[2])
     /\ base.t = "object" /\ ~heap[base.v].isArray
     /\ CallPath.v[1].v \notin DOMAIN heap[base.v].props
     /\ IsArray(heap, value)
     /\ Len(heap[value.v].elems) = Len(CallPath.v[2].v))
        => (/\ threw = "none"
            /\ IsArray(heap, Get(heap, result, CallPath.v[1]))
            /\ heap[Get(heap, result, CallPath.v[1]).v].elems
                   = heap[value.v].elems)

(***************************************************************************)
(* C8. As claimed: the parser splits the string on '.', and each token, a  *)
(* prefix followed by zero or more [n], yields the prefix (dropped when    *)
(* empty before a bracket) and one number for each [n], in order.          *)
(***************************************************************************)
Brackets == {"[", "]"}

\* the length of the prefix of a token: what comes before its first bracket
PrefixLen(tok) ==
    IF \E i \in 1..Len(tok) : tok[i] \in Brackets
    THEN (CHOOSE i \in 1..Len(tok) :
              tok[i] \in Brackets /\ \A j \in 1..(i - 1) : tok[j] \notin Brackets) - 1
    ELSE Len(tok)

\* the place of the first "]" of cs, 0 when there is none
FirstClose(cs) ==
    IF \E j \in 1..Len(cs) : cs[j] = "]"
    THEN CHOOSE j \in 1..Len(cs) : cs[j] = "]" /\ \A k \in 1..(j - 1) : cs[k] # "]"
    ELSE 0

RECURSIVE IsSuffixes(_)
\* cs is zero or more [n], n a non-negative integer
IsSuffixes(cs) ==
    \/ cs = <<>>
    \/ /\ cs[1] = "["
       /\ FirstClose(cs) > 2
       /\ \A k \in 2..(FirstClose(cs) - 1) : cs[k] \in Digits
       /\ IsSuffixes(SubSeq(cs, FirstClose(cs) + 1, Len(cs)))

RECURSIVE SuffixNumbers(_)
SuffixNumbers(cs) ==
    IF cs = <<>> THEN <<>>
    ELSE <<Num(ToNumber(SubSeq(cs, 2, FirstClose(cs) - 1)))>>
             \o SuffixNumbers(SubSeq(cs, FirstClose(cs) + 1, Len(cs)))

InGrammar(tok) == IsSuffixes(SubSeq(tok, PrefixLen(tok) + 1, Len(tok)))

ExpectedOfToken(tok) ==
    (IF PrefixLen(tok) = 0 /\ Len(tok) > 0
     THEN <<>>
     ELSE <<Str(Join(SubSeq(tok, 1, PrefixLen(tok))))>>)
        \o SuffixNumbers(SubSeq(tok, PrefixLen(tok) + 1, Len(tok)))

RECURSIVE ExpectedOfTokens(_)
ExpectedOfTokens(toks) ==
    IF toks = <<>> THEN <<>>
    ELSE ExpectedOfToken(Head(toks)) \o ExpectedOfTokens(Tail(toks))

C8_ParseGrammar ==
    (/\ parsed # Undefined
     /\ strIn # <<>>
     /\ \A i \in 1..Len(split(strIn)) : InGrammar(split(strIn)[i]))
        => parsed = Arr(ExpectedOfTokens(split(strIn)))

(***************************************************************************)
(* C9. As claimed: a container made on demand is an array exactly when the *)
(* mode is array-preferring and the key about to be written into it is a   *)
(* number; with the mode off no array is made.                             *)
(***************************************************************************)
NumericSegment(seg) ==
    \/ seg.t = "number"
    \/ seg.t = "array" /\ Len(seg.v) > 0 /\ seg.v[1].t = "number"

C9_ArraysOnlyInMode ==
    threw = "none" =>
    \A i \in 1..Len(created) :
        /\ heap[created[i].addr].isArray
               <=> (created[i].withArrays /\ NumericSegment(created[i].seg))
        /\ ~options.withArrays => ~heap[created[i].addr].isArray

\* C9 as amended: nextBase makes an array exactly when the mode is on and
\* the next segment is a single number; the setter, for a level that is no
\* object, makes an array exactly when the segment is a group whose first
\* key is a number, whatever the mode, or the mode is on and the segment is
\* a single number. In the result of an update by single keys, a level that
\* was no object in the base is therefore an array exactly when the mode is
\* on and its key is a number.
OnDemandRule(e) ==
    \/ e.withArrays /\ e.seg.t = "number"
    \/ e.by = "set" /\ e.seg.t = "array" /\ Len(e.seg.v) > 0
           /\ e.seg.v[1].t = "number"

C9_OnDemandContainers ==
    /\ \A i \in 1..Len(created) :
           heap[created[i].addr].isArray <=> OnDemandRule(created[i])
    /\ (ReachedSetter /\ threw = "none" /\ SingleKeys(CallPath.v)
            /\ ~nonIndex /\ ~sparse)
          => \A i \in 0..(Len(CallPath.v) - 1) :
                 NotObject(GetAtPath(heap, base, SubSeq(CallPath.v, 1, i)))
                     => (IsArray(heap, GetAtPath(heap, result, SubSeq(CallPath.v, 1, i)))
                             <=> (options.withArrays /\ CallPath.v[i + 1].t = "number"))

\* one call made an array by coercion in the setter and one in nextBase
C9_Witness ==
    /\ calls > 0
    /\ threw = "none"
    /\ \E i, j \in 1..Len(created) :
           /\ created[i].by = "set" /\ heap[created[i].addr].isArray
           /\ created[j].by = "nextBase" /\ heap[created[j].addr].isArray

(***************************************************************************)
(* C10. As claimed: under strict equality and single keys, the result of a *)
(* safe update is deep-equal to the result of the same update without safe *)
(* mode.                                                                   *)
(***************************************************************************)
\* the same call without safe mode, started from the present heap (the call
\* made left the cells of its base as they were)
PlainCall == safeSet(Machine(heap), base, path, value, [options EXCEPT !.safe = FALSE])

SameContentAsPlain ==
    /\ PlainCall.threw = threw
    /\ threw = "none" => DeepEqual(PlainCall.heap, result, PlainCall.ret)

C10_SafeSameContent ==
    (/\ HasPath
     /\ options.safe
     /\ options.equality = "none"
     /\ SingleKeys(CallPath.v)
     /\ ~PlainCall.nonIndex)
        => SameContentAsPlain

\* the base holds nothing under the last key: every level on the way is an
\* object or an array, and the last of them has no such key or index
TargetMissing ==
    LET parent == GetAtPath(heap, base, SubSeq(CallPath.v, 1, Len(CallPath.v) - 1))
    IN /\ \A i \in 0..(Len(CallPath.v) - 1) :
              GetAtPath(heap, base, SubSeq(CallPath.v, 1, i)).t = "object"
       /\ PropName(CallPath.v[Len(CallPath.v)]) \notin OwnNames(heap, parent)

\* C10 as amended: the same, for paths that address arrays by numbers only
\* (a string key on an array is spliced in by the plain update at the
\* position slice converts it to, while the pre-check reads it as a property
\* name: [<3>, 1, 0] with ["1"] and 1 is returned as it is by the safe
\* update and becomes [<3>, 1] by the plain one), except when the value is
\* undefined and the last key or index does not exist in the base: the
\* pre-check then finds undefined, safe mode returns the base, and the plain
\* update adds the key.
C10_SafeSameContentIfPresent ==
    (/\ HasPath
     /\ options.safe
     /\ options.equality = "none"
     /\ SingleKeys(CallPath.v)
     /\ ~PlainCall.nonIndex
     /\ ~(value = Undefined /\ TargetMissing))
        => SameContentAsPlain

\* safe mode returned {a: {a: 1, b: 2}, b: [10, 20]} itself for ["a","a"]
\* and 1; the plain update builds an equal structure out of new cells
C10_Witness ==
    /\ HasPath
    /\ options.safe
    /\ options.equality = "none"
    /\ base = Ref(6)
    /\ path = Arr(<<Str("a"), Str("a")>>)
    /\ value = Num(1)
    /\ result = base
    /\ PlainCall.ret # base
    /\ SameContentAsPlain

====
